---- MODULE Spec2Model ----
\* A model of circus/files/datafile.py: the module-level requirement
\* resolver _check_requierements_, the DataFile constructor run by every
\* MPI process, the lazily cached window-length properties and analyze.
EXTENDS Integers, Sequences, FiniteSets, TLC

\* ------------------------------------------------------------------ bounds
MaxProcs == 2      \* largest MPI communicator size explored
MaxDur   == 3      \* largest window duration of the grid, in half milliseconds
MaxShape == 12     \* largest shape[0] explored by analyze
MaxChunk == 5      \* largest chunk_size explored by analyze

\* ----------------------------------------------------------------- values
\* Every Python value and every raw configuration text is a record
\* [t, n, d]: t is the type tag (or the text itself), n/d the number held.
Val(t, n, d) == [t |-> t, n |-> n, d |-> d]

None      == Val("None", 0, 1)      \* Python None
Unset     == Val("unset", 0, 1)     \* attribute not set / key not in kwargs
PyInt(n)  == Val("int", n, 1)
PyFloat(n, d) == Val("float", n, d)
PyBool(b) == Val("bool", IF b THEN 1 ELSE 0, 1)
NaN       == Val("nan", 0, 1)       \* the float NaN

Absent    == Val("absent", 0, 1)    \* the configuration holds no such option
RawNum(n, d) == Val("num", n, d)    \* the decimal text of n/d
Malformed == Val("abc", 0, 1)       \* a text that converts to no number
NaNText   == Val("nantext", 0, 1)   \* the text 'nan'
Auto      == Val("auto", 0, 1)      \* the text 'auto'
TrueText  == Val("True", 0, 1)      \* the text 'True'

\* ------------------------------------------------ configuration resolver
\* The typed getters follow ConfigParser: a missing option raises
\* NoOptionError, a text that does not convert raises ValueError.
Ok(v)      == [ok |-> TRUE, v |-> v, exc |-> "none"]
Raise(exc) == [ok |-> FALSE, v |-> None, exc |-> exc]

Get(prm, section, key) ==
    LET raw == prm[<<section, key>>]
    IN  IF raw.t = "absent" THEN Raise("NoOptionError") ELSE Ok(raw)

GetInt(prm, section, key) ==
    LET raw == prm[<<section, key>>]
    IN  IF raw.t = "absent" THEN Raise("NoOptionError")
        ELSE IF raw.t = "num" /\ raw.d = 1 THEN Ok(PyInt(raw.n))
        ELSE Raise("ValueError")

GetFloat(prm, section, key) ==
    LET raw == prm[<<section, key>>]
    IN  IF raw.t = "absent" THEN Raise("NoOptionError")
        ELSE IF raw.t = "num" THEN Ok(PyFloat(raw.n, raw.d))
        ELSE IF raw.t = "nantext" THEN Ok(NaN)
        ELSE Raise("ValueError")

GetBoolean(prm, section, key) ==
    LET raw == prm[<<section, key>>]
    IN  IF raw.t = "absent" THEN Raise("NoOptionError")
        ELSE IF raw.t = "True" \/ (raw.t = "num" /\ raw.d = 1 /\ raw.n = 1)
             THEN Ok(PyBool(TRUE))
        ELSE IF raw.t = "num" /\ raw.d = 1 /\ raw.n = 0 THEN Ok(PyBool(FALSE))
        ELSE Raise("ValueError")

\* ------------------------------------------------------------ file names
\* A file name is a sequence of one-character strings.
UpperChar(c) ==
    CASE c = "d" -> "D" [] c = "a" -> "A" [] c = "t" -> "T"
      [] c = "x" -> "X" [] c = "y" -> "Y" [] c = "z" -> "Z"
      [] OTHER -> c

LowerChar(c) ==
    CASE c = "D" -> "d" [] c = "A" -> "a" [] c = "T" -> "t"
      [] c = "X" -> "x" [] c = "Y" -> "y" [] c = "Z" -> "z"
      [] OTHER -> c

\* str.upper()
Upper(s) == [i \in 1..Len(s) |-> UpperChar(s[i])]
Lower(s) == [i \in 1..Len(s) |-> LowerChar(s[i])]

\* position of the last occurrence of c in s, 0 when there is none (rfind)
RFind(s, c) ==
    IF \E i \in 1..Len(s) : s[i] = c
    THEN CHOOSE i \in 1..Len(s) : s[i] = c /\ \A j \in (i+1)..Len(s) : s[j] # c
    ELSE 0

\* os.path.splitext(p)[1]: the text from the last dot on, provided the dot
\* comes after the last separator and some character of the base name that
\* precedes it is not a dot; the empty string otherwise.
SplitExt(p) ==
    LET sepIndex == RFind(p, "/")
        dotIndex == RFind(p, ".")
    IN  IF dotIndex > sepIndex
           /\ \E i \in (sepIndex+1)..(dotIndex-1) : p[i] # "."
        THEN SubSeq(p, dotIndex, Len(p))
        ELSE << >>

\* self._extension + [item.upper() for item in self._extension]
AcceptedExtensions(exts) ==
    {exts[i] : i \in 1..Len(exts)} \cup {Upper(exts[i]) : i \in 1..Len(exts)}

\* the test of lines 100-101: TRUE when the constructor goes on.  The class
\* attribute _extension is [none, items]: none for _extension = None, items
\* the list of extensions otherwise.
ExtensionValid(ext, name) ==
    ext.none \/ SplitExt(name) \in AcceptedExtensions(ext.items)

\* --------------------------------------------------- _check_requierements_
\* fields is the ordered mapping _requiered_fields: a sequence of records
\* [key, type, default]; kw maps every declared key to its override or Unset.
\* The result is [ok, kw, key]: the completed mapping, or the key whose
\* lookup raised (the function then prints and calls sys.exit).
TypedLookup(prm, type, key, old) ==
    CASE type = "int"    -> GetInt(prm, "data", key)
      [] type = "string" -> Get(prm, "data", key)
      [] type = "float"  -> GetFloat(prm, "data", key)
      [] type = "bool"   -> GetBoolean(prm, "data", key)
      [] OTHER           -> Ok(old)

RECURSIVE CheckFrom(_, _, _, _)
CheckFrom(fields, prm, kw, i) ==
    IF i > Len(fields) THEN [ok |-> TRUE, kw |-> kw, key |-> "none"]
    ELSE LET f == fields[i]
         IN  IF kw[f.key] # Unset THEN CheckFrom(fields, prm, kw, i + 1)
             ELSE IF f.default # None
                  THEN CheckFrom(fields, prm, [kw EXCEPT ![f.key] = f.default], i + 1)
             ELSE LET r == TypedLookup(prm, f.type, f.key, kw[f.key])
                  IN  IF r.ok
                      THEN CheckFrom(fields, prm, [kw EXCEPT ![f.key] = r.v], i + 1)
                      ELSE [ok |-> FALSE, kw |-> kw, key |-> f.key]

_check_requierements_(fields, prm, kw) == CheckFrom(fields, prm, kw, 1)

\* ------------------------------------------------------------------ state
VARIABLES
    comm_size,     \* number of MPI processes; process p has comm.rank = p
    file_name,     \* constructor argument file_name
    is_empty,      \* constructor argument is_empty
    _is_writable,  \* class attribute _is_writable of the format
    _extension,    \* class attribute _extension of the format
    _requiered_fields, \* class attribute _requiered_fields of the format
    overrides,     \* keyword arguments the caller passes, Unset where none
    params,        \* the configuration: <<section, option>> -> raw text
    pc,            \* per process: position in its construction
    exc,           \* per process: the exception that ended its construction
    kwargs,        \* per process: the mapping _check_requierements_ returned
    attrs,         \* per process: the instance attributes of the handle
    idx,           \* per process: position in the loop over requiered_values
    consulted,     \* per process: core keys looked up in the configuration
    info_calls,    \* per process: number of calls of _get_info_
    log,           \* messages printed so far, each [rank, msg, key]
    rate,          \* attribute rate of the handle whose properties are read
    _N_t,          \* attribute _N_t of that handle
    _template_shift, \* attribute _template_shift of that handle
    last,          \* the last property read: what was asked and what came back
    first,         \* what the first read of N_t that returned gave, Unset before
    shape,         \* attribute _shape[0] of the handle analyze is called on
    plan           \* what the last call of analyze returned

vars == <<comm_size, file_name, is_empty, _is_writable, _extension, _requiered_fields,
          overrides, params, pc, exc, kwargs, attrs, idx, consulted,
          info_calls, log, rate, _N_t, _template_shift, last, first,
          shape, plan>>

inputVars == <<comm_size, file_name, is_empty, _is_writable, _extension, _requiered_fields,
               overrides>>
ctorVars  == <<pc, exc, kwargs, attrs, idx, consulted, info_calls, log>>
propVars  == <<rate, _N_t, _template_shift, last, first>>
planVars  == <<shape, plan>>

Procs == 0..(MaxProcs - 1)

\* requiered_values of lines 106-108, in the order the dictionary lists them
CoreKeys == <<"rate", "N_e", "N_tot">>
CoreKeySet == {"rate", "N_e", "N_tot"}
requiered_values ==
    [rate  |-> <<"data", "sampling_rate", "float">>,
     N_e   |-> <<"data", "N_e", "int">>,
     N_tot |-> <<"data", "N_total", "int">>]

DeclaredKeys == {"data_offset", "data_dtype"}
AttrKeys == CoreKeySet \cup DeclaredKeys

ParamKeys ==
    {<<"data", "sampling_rate">>, <<"data", "N_e">>, <<"data", "N_total">>,
     <<"data", "data_offset">>, <<"data", "data_dtype">>,
     <<"detection", "N_t">>, <<"data", "N_t">>, <<"data", "chunk_size">>,
     <<"clustering", "safety_time">>}

NoParams    == [k \in ParamKeys |-> Absent]
NoOverrides == [k \in AttrKeys |-> Unset]

\* comm.rank == 0
is_master(p) == p = 0

Msg(p, msg, key) == [rank |-> p, msg |-> msg, key |-> key]

\* ------------------------------------------------- construction, per process
\* A format's constructor first completes its keyword arguments with
\* _check_requierements_ (lines 5-26) and then runs DataFile.__init__.
\* On a failed lookup the function prints the requirements and the error
\* and exits, whatever the rank.
CheckRequirements(p) ==
    /\ p < comm_size
    /\ pc[p] = "req"
    /\ LET r == _check_requierements_(_requiered_fields, params, overrides)
       IN  IF r.ok
           THEN /\ kwargs' = [kwargs EXCEPT ![p] = r.kw]
                /\ pc' = [pc EXCEPT ![p] = "init"]
                /\ UNCHANGED <<exc, log>>
           ELSE /\ log' = log \cup {Msg(p, "requirements", "none"),
                                    Msg(p, "must_be_specified", r.key)}
                /\ pc' = [pc EXCEPT ![p] = "failed"]
                /\ exc' = [exc EXCEPT ![p] = "SystemExit"]
                /\ UNCHANGED kwargs
    /\ UNCHANGED <<inputVars, params, attrs, idx, consulted, info_calls,
                   propVars, planVars>>

\* __init__, lines 89-111: the empty/writable test, the extension test and
\* the copy of the keyword arguments into attributes.  The message of line
\* 95 formats the local variable extension, which line 98 assigns: on the
\* master the read raises UnboundLocalError before anything is printed.
Validate(p) ==
    /\ p < comm_size
    /\ pc[p] = "init"
    /\ IF is_empty /\ ~_is_writable
       THEN /\ pc' = [pc EXCEPT ![p] = "failed"]
            /\ exc' = [exc EXCEPT ![p] =
                          IF is_master(p) THEN "UnboundLocalError" ELSE "SystemExit"]
            /\ UNCHANGED <<attrs, log>>
       ELSE IF ~ExtensionValid(_extension, file_name)
       THEN /\ pc' = [pc EXCEPT ![p] = "failed"]
            /\ exc' = [exc EXCEPT ![p] = "SystemExit"]
            /\ log' = IF is_master(p)
                      THEN log \cup {Msg(p, "extension_not_valid", "none")}
                      ELSE log
            /\ UNCHANGED attrs
       ELSE /\ pc' = [pc EXCEPT ![p] = "resolve"]
            /\ attrs' = [attrs EXCEPT ![p] = kwargs[p]]
            /\ UNCHANGED <<exc, log>>
    /\ UNCHANGED <<inputVars, params, kwargs, idx, consulted, info_calls,
                   propVars, planVars>>

\* a test that sends every core key to the configuration
hasattr_never(a, key) == FALSE

\* hasattr(self, key)
hasattr(a, key) == a[key] # Unset

\* the lookup of lines 115-118 for one core key
CoreLookup(prm, key) ==
    LET value == requiered_values[key]
    IN  IF value[3] = "int" THEN GetInt(prm, value[1], value[2])
        ELSE GetFloat(prm, value[1], value[2])

\* __init__, lines 113-124: one turn of the loop over requiered_values
ResolveField(p) ==
    /\ p < comm_size
    /\ pc[p] = "resolve"
    /\ LET key == CoreKeys[idx[p]]
           nextpc == IF idx[p] = Len(CoreKeys) THEN "finish" ELSE "resolve"
       IN  IF ~hasattr(attrs[p], key)
           THEN LET r == CoreLookup(params, key)
                IN  /\ consulted' = [consulted EXCEPT ![p] = @ \cup {key}]
                    /\ IF r.ok
                       THEN /\ attrs' = [attrs EXCEPT ![p][key] = r.v]
                            /\ log' = IF is_master(p)
                                      THEN log \cup {Msg(p, "read_from_params", key)}
                                      ELSE log
                            /\ pc' = [pc EXCEPT ![p] = nextpc]
                            /\ idx' = [idx EXCEPT ![p] = @ + 1]
                            /\ UNCHANGED exc
                       ELSE /\ pc' = [pc EXCEPT ![p] = "failed"]
                            /\ exc' = [exc EXCEPT ![p] = r.exc]
                            /\ UNCHANGED <<attrs, log, idx>>
           ELSE /\ log' = IF is_master(p)
                          THEN log \cup {Msg(p, "infered_from_data", key)}
                          ELSE log
                /\ pc' = [pc EXCEPT ![p] = nextpc]
                /\ idx' = [idx EXCEPT ![p] = @ + 1]
                /\ UNCHANGED <<attrs, consulted, exc>>
    /\ UNCHANGED <<inputVars, params, kwargs, info_calls, propVars, planVars>>

\* _get_info_, lines 179-184: the base class reads nothing from the file.
\* It runs after the loop over requiered_values, so what a format knows from
\* the header reaches that loop only as an attribute that is already set.
_get_info_(a) == a

\* __init__, lines 127-135: the caches are cleared, the master reports the
\* creation and a non-empty file is introspected.
Finish(p) ==
    /\ p < comm_size
    /\ pc[p] = "finish"
    /\ log' = IF is_master(p) THEN log \cup {Msg(p, "created", "none")} ELSE log
    /\ IF ~is_empty
       THEN /\ attrs' = [attrs EXCEPT ![p] = _get_info_(@)]
            /\ info_calls' = [info_calls EXCEPT ![p] = @ + 1]
       ELSE UNCHANGED <<attrs, info_calls>>
    /\ pc' = [pc EXCEPT ![p] = "done"]
    /\ UNCHANGED <<inputVars, params, kwargs, exc, idx, consulted,
                   propVars, planVars>>

\* ------------------------------------------------- the derived properties
\* numbers: a float or an int holds n/d
IsNumber(x) == x.t \in {"float", "int"}

\* the factor 1e-3 of line 147, as the divisor it stands for
Milli == 1000

\* round(a/b) for a non-negative rational a/b, halves to the even neighbour
Round(a, b) ==
    LET q == a \div b
        r == 2 * (a % b)
    IN  IF r < b THEN q
        ELSE IF r > b THEN q + 1
        ELSE IF q % 2 = 0 THEN q ELSE q + 1

\* ------------------------------------------------------ IEEE 754 doubles
\* Line 147 multiplies Python floats.  A positive double is [m, e]: the
\* 53-bit significand m, an integer of 2^52 .. 2^53 - 1 held as a sequence of
\* limbs in base 2^15 (least significant first), and the exponent e, the
\* value being m * 2^e.  Products are rounded to nearest, ties to even.
LimbBits == 15
Base     == 2^LimbBits
MantBits == 53

RECURSIVE Strip(_)
Strip(a) ==
    IF Len(a) > 0 /\ a[Len(a)] = 0 THEN Strip(SubSeq(a, 1, Len(a) - 1)) ELSE a

RECURSIVE FromNat(_)
FromNat(n) == IF n = 0 THEN << >> ELSE <<n % Base>> \o FromNat(n \div Base)

RECURSIVE ToNat(_)
ToNat(a) == IF a = << >> THEN 0 ELSE a[1] + Base * ToNat(Tail(a))

RECURSIVE MulSmall(_, _, _)
MulSmall(a, k, carry) ==
    IF a = << >> THEN FromNat(carry)
    ELSE LET t == a[1] * k + carry
         IN  <<t % Base>> \o MulSmall(Tail(a), k, t \div Base)

RECURSIVE AddBig(_, _, _)
AddBig(a, b, carry) ==
    IF a = << >> /\ b = << >> THEN FromNat(carry)
    ELSE LET x == IF a = << >> THEN 0 ELSE a[1]
             y == IF b = << >> THEN 0 ELSE b[1]
             t == x + y + carry
         IN  <<t % Base>> \o AddBig(IF a = << >> THEN a ELSE Tail(a),
                                    IF b = << >> THEN b ELSE Tail(b),
                                    t \div Base)

RECURSIVE MulBig(_, _)
MulBig(a, b) ==
    IF b = << >> THEN << >>
    ELSE AddBig(MulSmall(a, b[1], 0), <<0>> \o MulBig(a, Tail(b)), 0)

RECURSIVE ShiftLeft(_, _)
ShiftLeft(a, s) ==
    IF s >= LimbBits THEN <<0>> \o ShiftLeft(a, s - LimbBits)
    ELSE MulSmall(a, 2^s, 0)

Half(a) ==
    Strip([i \in 1..Len(a) |->
              (a[i] \div 2) + (IF i < Len(a) THEN (a[i + 1] % 2) * (Base \div 2) ELSE 0)])

\* a shifted right by s bits: the quotient q, the last bit shifted out
\* (guard) and whether any bit shifted out before it was set (sticky)
Limb(a, i) == IF i <= Len(a) THEN a[i] ELSE 0

ShiftRight(a, s) ==
    LET w == s \div LimbBits
        b == s % LimbBits
        g == s - 1
    IN  [q |-> Strip([i \in 1..(Len(a) - w) |->
                        (a[i + w] \div 2^b)
                          + (Limb(a, i + w + 1) % 2^b) * 2^(LimbBits - b)]),
         guard |-> s > 0 /\ (Limb(a, (g \div LimbBits) + 1) \div 2^(g % LimbBits)) % 2 = 1,
         sticky |-> s > 0 /\ \E i \in 1..Len(a) :
                       \/ i - 1 < g \div LimbBits /\ a[i] # 0
                       \/ i - 1 = g \div LimbBits /\ a[i] % 2^(g % LimbBits) # 0]

RECURSIVE BitLenNat(_)
BitLenNat(n) == IF n = 0 THEN 0 ELSE 1 + BitLenNat(n \div 2)

BitLen(a) == IF a = << >> THEN 0 ELSE LimbBits * (Len(a) - 1) + BitLenNat(a[Len(a)])

\* a divided by d < 2^16, from the most significant limb: [q, rem]
DivLimbs(a, d) ==
    LET RECURSIVE Go(_, _)
        Go(i, rem) ==
            IF i = 0 THEN [q |-> << >>, rem |-> rem]
            ELSE LET cur  == rem * Base + a[i]
                     rest == Go(i - 1, cur % d)
                 IN  [q |-> rest.q \o <<cur \div d>>, rem |-> rest.rem]
    IN  Go(Len(a), 0)

\* round to nearest, ties to even, and renormalise to 53 bits
RoundDouble(q, guard, sticky, e) ==
    LET up == guard /\ (sticky \/ q[1] % 2 = 1)
        m  == IF up THEN Strip(AddBig(q, <<1>>, 0)) ELSE q
    IN  IF BitLen(m) > MantBits THEN [m |-> Half(m), e |-> e + 1]
        ELSE [m |-> m, e |-> e]

\* float('n/d'): the double nearest to the positive rational n/d
FromRatio(n, d) ==
    LET k   == MantBits + BitLenNat(d) - BitLenNat(n)
        qr  == DivLimbs(ShiftLeft(FromNat(n), k), d)
        q   == Strip(qr.q)
    IN  IF BitLen(q) > MantBits
        THEN RoundDouble(Half(q), q[1] % 2 = 1, qr.rem # 0, 1 - k)
        ELSE RoundDouble(q, 2 * qr.rem >= d, 2 * qr.rem > d, 0 - k)

\* x * y
MulDouble(x, y) ==
    LET p == Strip(MulBig(x.m, y.m))
        s == BitLen(p) - MantBits
        r == ShiftRight(p, s)
    IN  RoundDouble(r.q, r.guard, r.sticky, x.e + y.e + s)

\* int(x) of a positive double
TruncDouble(x) ==
    IF x.e >= 0 THEN ToNat(ShiftLeft(x.m, x.e))
    ELSE IF 0 - x.e > MantBits THEN 0
    ELSE ToNat(ShiftRight(x.m, 0 - x.e).q)

\* the double a positive float or int value stands for
ToDouble(x) == FromRatio(x.n, x.d)

\* self.rate*self._N_t*1e-3, line 147: two double products, left to right
ScaledProduct(r, ms) ==
    MulDouble(MulDouble(ToDouble(r), ToDouble(ms)), FromRatio(1, Milli))

\* int(self.rate*self._N_t*1e-3), line 147, for a positive rate and
\* duration: the double product is truncated.  A rate that is None makes the
\* product raise TypeError; a NaN rate or duration makes the product NaN and
\* int() raise ValueError.
ToSamples(r, ms) ==
    IF ~(IsNumber(r) \/ r.t = "nan") THEN Raise("TypeError")
    ELSE IF r.t = "nan" \/ ms.t = "nan" THEN Raise("ValueError")
    ELSE Ok(PyInt(TruncDouble(ScaledProduct(r, ms))))

\* lines 148-149: an even count is incremented
ForceOdd(n) == IF n % 2 = 0 THEN n + 1 ELSE n

\* lines 142-145 and 169-172: the detection-scoped option, and the
\* data-scoped one when the first getter raised any exception.
\* The result carries the sections consulted, in order.
WindowDuration(prm) ==
    LET r1 == GetFloat(prm, "detection", "N_t")
    IN  IF r1.ok THEN [r |-> r1, lookups |-> <<"detection">>]
        ELSE [r |-> GetFloat(prm, "data", "N_t"), lookups |-> <<"detection", "data">>]

\* The property N_t, lines 137-151, as a function of the handle's rate, its
\* cache and the configuration: [ret, cache, lookups, hit, ms].  The cache
\* is assigned the duration at line 143/145 and the count at line 147.
N_t(r, cache, prm) ==
    IF cache # None
    THEN [ret |-> Ok(cache), cache |-> cache, lookups |-> << >>, hit |-> TRUE,
          ms |-> None]
    ELSE LET w == WindowDuration(prm)
         IN  IF ~w.r.ok
             THEN [ret |-> w.r, cache |-> cache, lookups |-> w.lookups,
                   hit |-> FALSE, ms |-> None]
             ELSE LET c == ToSamples(r, w.r.v)
                  IN  IF ~c.ok
                      THEN [ret |-> c, cache |-> w.r.v, lookups |-> w.lookups,
                            hit |-> FALSE, ms |-> w.r.v]
                      ELSE LET n == PyInt(ForceOdd(c.v.n))
                           IN  [ret |-> Ok(n), cache |-> n, lookups |-> w.lookups,
                                hit |-> FALSE, ms |-> w.r.v]

\* int((self.N_t-1)//2), line 162, for the int or float N_t returns
ShiftOf(x) ==
    IF x.t = "nan" THEN Raise("ValueError")
    ELSE Ok(PyInt((x.n - x.d) \div (2 * x.d)))

\* The property template_shift, lines 157-162
template_shift(r, cache, shift, prm) ==
    IF shift # None
    THEN [ret |-> Ok(shift), cache |-> cache, lookups |-> << >>, hit |-> TRUE,
          ms |-> None]
    ELSE LET a == N_t(r, cache, prm)
         IN  IF a.ret.ok THEN [a EXCEPT !.ret = ShiftOf(a.ret.v)] ELSE a

\* float(safety_time), line 176
ToFloat(raw) ==
    IF raw.t = "num" THEN Ok(PyFloat(raw.n, raw.d))
    ELSE IF raw.t = "nantext" THEN Ok(NaN)
    ELSE Raise("ValueError")

\* get_safety_time, lines 165-176: [ret, lookups]
get_safety_time(prm, key) ==
    LET s == Get(prm, key, "safety_time")
    IN  IF ~s.ok THEN [ret |-> s, lookups |-> << >>]
        ELSE IF s.v = Auto
        THEN LET w == WindowDuration(prm)
             IN  [ret |-> IF ~w.r.ok THEN w.r
                          ELSE IF w.r.v.t = "nan" THEN Ok(NaN)
                          ELSE Ok(PyFloat(w.r.v.n \div (3 * w.r.v.d), 1)),
                  lookups |-> w.lookups]
        ELSE [ret |-> ToFloat(s.v), lookups |-> << >>]

Read(op, a) ==
    [op |-> op, ok |-> a.ret.ok, exc |-> a.ret.exc, v |-> a.ret.v,
     lookups |-> a.lookups, hit |-> a.hit, ms |-> a.ms,
     det |-> params[<<"detection", "N_t">>], dat |-> params[<<"data", "N_t">>]]

\* a read of self.N_t
ReadN_t ==
    LET a == N_t(rate, _N_t, params)
    IN  /\ _N_t' = a.cache
        /\ last' = Read("N_t", a)
        /\ first' = IF first = Unset /\ a.ret.ok THEN a.ret.v ELSE first
        /\ UNCHANGED <<inputVars, params, ctorVars, rate, _template_shift,
                       planVars>>

\* a read of self.dist_peaks, lines 153-155
ReadDistPeaks ==
    LET a == N_t(rate, _N_t, params)
    IN  /\ _N_t' = a.cache
        /\ last' = Read("dist_peaks", a)
        /\ first' = IF first = Unset /\ a.ret.ok THEN a.ret.v ELSE first
        /\ UNCHANGED <<inputVars, params, ctorVars, rate, _template_shift,
                       planVars>>

\* a read of self.template_shift: N_t is accessed at line 162 only, when
\* _template_shift is None
ReadTemplateShift ==
    LET a == template_shift(rate, _N_t, _template_shift, params)
    IN  /\ _N_t' = a.cache
        /\ last' = Read("template_shift", a)
        /\ first' = IF _template_shift # None THEN first
                    ELSE LET n == N_t(rate, _N_t, params)
                         IN  IF first = Unset /\ n.ret.ok THEN n.ret.v ELSE first
        /\ UNCHANGED <<inputVars, params, ctorVars, rate, _template_shift,
                       planVars>>

\* a call of self.get_safety_time('clustering')
GetSafetyTime ==
    LET a == get_safety_time(params, "clustering")
    IN  /\ last' = Read("safety_time", a @@ [hit |-> FALSE, ms |-> None])
        /\ UNCHANGED <<inputVars, params, ctorVars, rate, _N_t,
                       _template_shift, first, planVars>>

\* The durations are a grid of half milliseconds and 2.32 ms, whose product
\* with 25000 Hz falls below 58 in doubles.
Durations == {RawNum(d, 2) : d \in 1..MaxDur} \cup {RawNum(232, 100)}
DetectionEntries == {Absent, Malformed, NaNText} \cup Durations
DataEntries == {Absent, Malformed, RawNum(1, 2)}

\* The configuration object is shared with the rest of the pipeline, which
\* may set a window duration between two reads.
SetWindowDuration ==
    /\ \E section \in {"detection", "data"} :
         \E e \in (IF section = "detection" THEN DetectionEntries ELSE DataEntries) :
            /\ params[<<section, "N_t">>] # e
            /\ params' = [params EXCEPT ![<<section, "N_t">>] = e]
    /\ UNCHANGED <<inputVars, ctorVars, propVars, planVars>>

\* ------------------------------------------------------------- analyze
\* _get_chunk_size_, lines 187-194: arg is None or the int passed
_get_chunk_size_(prm, arg) ==
    IF arg = None THEN GetInt(prm, "data", "chunk_size") ELSE Ok(arg)

\* analyze that does not count the incomplete chunk
analyze_whole_only(s, cs) == <<s \div cs, s - (s \div cs) * cs>>

\* analyze, lines 231-246, on shape[0] = s and a chunk size cs >= 1.  The
\* numpy.int64 arithmetic does not wrap: no intermediate exceeds shape[0].
analyze(s, cs) ==
    LET nb_chunks      == s \div cs
        last_chunk_len == s - nb_chunks * cs
    IN  IF last_chunk_len > 0
        THEN <<nb_chunks + 1, last_chunk_len>>
        ELSE <<nb_chunks, last_chunk_len>>

\* a call self.analyze(chunk_size)
Analyze(arg) ==
    /\ LET c == _get_chunk_size_(params, arg)
       IN  plan' = IF c.ok
                   THEN [ok |-> TRUE, exc |-> "none", chunk_size |-> c.v.n,
                         ret |-> analyze(shape, c.v.n)]
                   ELSE [ok |-> FALSE, exc |-> c.exc, chunk_size |-> 0,
                         ret |-> <<0, 0>>]
    /\ UNCHANGED <<inputVars, params, ctorVars, propVars, shape>>

\* ------------------------------------------------ idle values of the parts
NoLast == [op |-> "none", ok |-> TRUE, exc |-> "none", v |-> None,
           lookups |-> << >>, hit |-> FALSE, ms |-> None,
           det |-> Absent, dat |-> Absent]

IdleCtor ==
    /\ pc = [p \in Procs |-> "idle"]
    /\ exc = [p \in Procs |-> "none"]
    /\ kwargs = [p \in Procs |-> NoOverrides]
    /\ attrs = [p \in Procs |-> NoOverrides]
    /\ idx = [p \in Procs |-> 1]
    /\ consulted = [p \in Procs |-> {}]
    /\ info_calls = [p \in Procs |-> 0]
    /\ log = {}

IdleProps ==
    /\ rate = Unset
    /\ _N_t = None
    /\ _template_shift = None
    /\ last = NoLast
    /\ first = Unset

NoPlan == [ok |-> TRUE, exc |-> "idle", chunk_size |-> 0, ret |-> <<0, 0>>]

IdlePlan ==
    /\ shape = 0
    /\ plan = NoPlan

\* ------------------------------------------------- the construction inputs
Chars(a, b, c) == <<"a", ".", a, b, c>>
FileNames == {Chars("d", "a", "t"), Chars("D", "A", "T"),
              Chars("D", "a", "t"), Chars("x", "y", "z")}
Extensions == {[none |-> TRUE, items |-> << >>],
               [none |-> FALSE, items |-> << <<".", "d", "a", "t">> >>]}

\* what a caller passes for a core key, and what the configuration holds
OverrideOf == [rate |-> PyFloat(30000, 1), N_e |-> PyInt(2), N_tot |-> PyInt(3)]
ConfigOf   == [rate |-> RawNum(20000, 1), N_e |-> RawNum(4, 1), N_tot |-> RawNum(8, 1)]

Field(key, type, default) == [key |-> key, type |-> type, default |-> default]

CoreParams(present, dtype) ==
    [k \in ParamKeys |->
        IF \E c \in present : k = <<requiered_values[c][1], requiered_values[c][2]>>
        THEN LET c == CHOOSE c \in present :
                         k = <<requiered_values[c][1], requiered_values[c][2]>>
             IN  ConfigOf[c]
        ELSE IF k = <<"data", "data_dtype">> THEN dtype
        ELSE Absent]

Init ==
    /\ comm_size \in 1..MaxProcs
    /\ file_name \in FileNames
    /\ is_empty \in BOOLEAN
    /\ _is_writable \in BOOLEAN
    /\ _extension \in Extensions
    /\ _requiered_fields = <<Field("data_dtype", "string", None)>>
    /\ \E given \in SUBSET CoreKeySet :
          overrides = [k \in AttrKeys |-> IF k \in given THEN OverrideOf[k] ELSE Unset]
    /\ \E present \in SUBSET CoreKeySet, dtype \in {Absent, Malformed} :
          params = CoreParams(present, dtype)
    /\ pc = [p \in Procs |-> IF p < comm_size THEN "req" ELSE "idle"]
    /\ exc = [p \in Procs |-> "none"]
    /\ kwargs = [p \in Procs |-> NoOverrides]
    /\ attrs = [p \in Procs |-> NoOverrides]
    /\ idx = [p \in Procs |-> 1]
    /\ consulted = [p \in Procs |-> {}]
    /\ info_calls = [p \in Procs |-> 0]
    /\ log = {}
    /\ IdleProps
    /\ IdlePlan

Next ==
    \E p \in Procs :
        \/ CheckRequirements(p)
        \/ Validate(p)
        \/ ResolveField(p)
        \/ Finish(p)

Spec == Init /\ [][Next]_vars

\* ------------------------------------------------- reads of one handle
\* The handle is one the constructor produced: its rate is the float the
\* configuration or an override gave, NaN included ('nan' is a float text).
RateEntries == {RawNum(1000, 1), RawNum(20000, 1), RawNum(25000, 1), NaNText}
Rates == {CoreLookup([NoParams EXCEPT ![<<"data", "sampling_rate">>] = e], "rate").v :
             e \in RateEntries}

InitProps ==
    /\ comm_size = 1
    /\ file_name = Chars("d", "a", "t")
    /\ is_empty = FALSE
    /\ _is_writable = FALSE
    /\ _extension = [none |-> TRUE, items |-> << >>]
    /\ _requiered_fields = << >>
    /\ overrides = NoOverrides
    /\ \E det \in DetectionEntries, dat \in DataEntries,
          st \in {Auto, RawNum(5, 2)} :
          params = [NoParams EXCEPT ![<<"detection", "N_t">>] = det,
                                    ![<<"data", "N_t">>] = dat,
                                    ![<<"clustering", "safety_time">>] = st]
    /\ IdleCtor
    /\ rate \in Rates
    /\ _N_t = None
    /\ _template_shift = None
    /\ last = NoLast
    /\ first = Unset
    /\ IdlePlan

NextProps ==
    \/ ReadN_t
    \/ ReadDistPeaks
    \/ ReadTemplateShift
    \/ GetSafetyTime
    \/ SetWindowDuration

SpecProps == InitProps /\ [][NextProps]_vars

\* ------------------------------------------------- chunk plans of one handle
\* shape[0] is whatever the format's header gave; 1000 and 300 are the
\* documented example.
Shapes == (0..MaxShape) \cup {1000}
ChunkSizes == (1..MaxChunk) \cup {300}

InitPlan ==
    /\ comm_size = 1
    /\ file_name = Chars("d", "a", "t")
    /\ is_empty = FALSE
    /\ _is_writable = FALSE
    /\ _extension = [none |-> TRUE, items |-> << >>]
    /\ _requiered_fields = << >>
    /\ overrides = NoOverrides
    /\ \E e \in {Absent, RawNum(MaxChunk, 1), RawNum(1, 1)} :
          params = [NoParams EXCEPT ![<<"data", "chunk_size">>] = e]
    /\ IdleCtor
    /\ IdleProps
    /\ shape \in Shapes
    /\ plan = NoPlan

NextPlan == \E arg \in {None} \cup {PyInt(c) : c \in ChunkSizes} : Analyze(arg)

SpecPlan == InitPlan /\ [][NextPlan]_vars

\* --------------------------------------- required fields of a format
FieldLists ==
    {<<Field("data_offset", "int", None)>>,
     <<Field("data_offset", "int", PyInt(0))>>,
     <<Field("data_offset", "int", PyInt(0)), Field("data_dtype", "string", None)>>,
     <<Field("data_offset", "float", None), Field("data_dtype", "bool", None)>>}
DeclaredOverride == [data_offset |-> PyInt(7), data_dtype |-> Val("int16", 0, 1)]
DeclaredEntries == {Absent, Malformed, RawNum(5, 1), TrueText}

InitReq ==
    /\ comm_size = 1
    /\ file_name = Chars("d", "a", "t")
    /\ is_empty = FALSE
    /\ _is_writable = FALSE
    /\ _extension = [none |-> TRUE, items |-> << >>]
    /\ _requiered_fields \in FieldLists
    /\ \E given \in SUBSET DeclaredKeys :
          overrides = [k \in AttrKeys |->
                          IF k \in given THEN DeclaredOverride[k] ELSE Unset]
    /\ \E e1 \in DeclaredEntries, e2 \in DeclaredEntries :
          params = [NoParams EXCEPT ![<<"data", "data_offset">>] = e1,
                                    ![<<"data", "data_dtype">>] = e2]
    /\ pc = [p \in Procs |-> IF p < comm_size THEN "req" ELSE "idle"]
    /\ exc = [p \in Procs |-> "none"]
    /\ kwargs = [p \in Procs |-> NoOverrides]
    /\ attrs = [p \in Procs |-> NoOverrides]
    /\ idx = [p \in Procs |-> 1]
    /\ consulted = [p \in Procs |-> {}]
    /\ info_calls = [p \in Procs |-> 0]
    /\ log = {}
    /\ IdleProps
    /\ IdlePlan

NextReq == \E p \in Procs : CheckRequirements(p)

SpecReq == InitReq /\ [][NextReq]_vars

\* ================================================================ claims
Running == {p \in Procs : p < comm_size}
ReqOk == _check_requierements_(_requiered_fields, params, overrides).ok
EmptyNonWritable == is_empty /\ ~_is_writable
PastValidate(p) == pc[p] \in {"resolve", "finish", "done", "failed"} /\ ReqOk

\* C1: for shape[0] >= 0 and chunk_size >= 1 analyze returns (nb_chunks,
\* last_chunk_len) with nb_chunks*chunk_size >= shape[0] and
\* (nb_chunks-1)*chunk_size < shape[0]; last_chunk_len is
\* shape[0] - (nb_chunks-1)*chunk_size when shape[0] is no multiple of
\* chunk_size and 0 when it is; 1000 in chunks of 300 gives (4, 100).
C1_AnalyzePlan ==
    (plan.exc = "none" /\ plan.chunk_size >= 1) =>
        LET cs == plan.chunk_size
            nb == plan.ret[1]
            ll == plan.ret[2]
        IN  /\ nb * cs >= shape
            /\ (nb - 1) * cs < shape
            /\ (shape % cs # 0 => ll = shape - (nb - 1) * cs)
            /\ (shape % cs = 0 => ll = 0)
            /\ (shape = 1000 /\ cs = 300 => plan.ret = <<4, 100>>)

C1_Witness ==
    plan.exc = "none" /\ shape = 1000 /\ plan.chunk_size = 300 /\ plan.ret = <<4, 100>>

FreshWindow ==
    last.op = "N_t" /\ last.ok /\ ~last.hit /\ IsNumber(rate) /\ rate.n > 0

\* C2: for positive rate and duration the window length is odd,
\* positive, and equals round(rate*duration_ms/1000) or that value plus one,
\* the plus one applied only when the rounded value is even.
C2_RoundedWindow ==
    FreshWindow =>
        LET R == Round(rate.n * last.ms.n, rate.d * last.ms.d * Milli)
        IN  /\ last.v.n % 2 = 1
            /\ last.v.n > 0
            /\ last.v.n = (IF R % 2 = 0 THEN R + 1 ELSE R)

\* C3: constructing with is_empty = true on a non-writable format ends, on
\* every rank, with the error reported (by the master) and the process
\* exiting; no handle is constructed, no core key is looked up and the
\* header is not introspected.
C3_EmptyNonWritableExits ==
    \A p \in Running :
        (EmptyNonWritable /\ PastValidate(p)) =>
            /\ pc[p] = "failed"
            /\ exc[p] = "SystemExit"
            /\ consulted[p] = {}
            /\ info_calls[p] = 0
            /\ (is_master(p) => Msg(p, "empty_non_writable", "none") \in log)

\* C4: when _extension is not None the extension test passes if and only if
\* the file's extension equals an allowed one up to letter case; when it is
\* None every extension passes.
CaseInsensitiveMember ==
    \E i \in 1..Len(_extension.items) :
        Lower(SplitExt(file_name)) = Lower(_extension.items[i])

C4_ExtensionCaseInsensitive ==
    \A p \in Running :
        (PastValidate(p) /\ ~EmptyNonWritable) =>
            (~(pc[p] = "failed" /\ exc[p] = "SystemExit")
                <=> (_extension.none \/ CaseInsensitiveMember))

\* C5: for each of rate, N_e and N_tot, a value already set on the handle
\* (an override, or what the format read from the header and passed on) is
\* the value exposed, the configuration is not consulted for it, and a
\* missing entry for it does not fail the construction; the configuration
\* is consulted only for the other keys, and construction fails exactly
\* when one of those has no well-typed entry.
InLoop(p) ==
    PastValidate(p) /\ (pc[p] = "failed" => exc[p] \in {"NoOptionError", "ValueError"})

C5_CorePrecedence ==
    \A p \in Running :
        InLoop(p) =>
            /\ \A i \in 1..Len(CoreKeys) :
                  LET key   == CoreKeys[i]
                      given == kwargs[p][key] # Unset
                      entry == CoreLookup(params, key)
                  IN  /\ given => (key \notin consulted[p]
                                     /\ attrs[p][key] = kwargs[p][key]
                                     /\ attrs[p][key] = overrides[key])
                      /\ key \in consulted[p] => ~given
                      /\ (~given /\ idx[p] > i) =>
                            (key \in consulted[p] /\ entry.ok /\ attrs[p][key] = entry.v)
                      /\ (key \in consulted[p] /\ ~entry.ok) => pc[p] = "failed"
            /\ pc[p] = "failed" =>
                  \E key \in CoreKeySet :
                      kwargs[p][key] = Unset /\ ~CoreLookup(params, key).ok
            /\ pc[p] = "done" =>
                  \A key \in CoreKeySet :
                      kwargs[p][key] = Unset => CoreLookup(params, key).ok

C5_Witness ==
    \E p \in Running :
        /\ pc[p] = "done"
        /\ kwargs[p]["rate"] # Unset
        /\ attrs[p]["rate"] = OverrideOf["rate"]
        /\ params[<<"data", "N_e">>] # Absent
        /\ kwargs[p]["N_e"] = Unset
        /\ attrs[p]["N_e"] = PyInt(ConfigOf["N_e"].n)
        /\ "N_e" \in consulted[p]
        /\ kwargs[p]["N_tot"] # Unset
        /\ params[<<"data", "N_total">>] = Absent

\* C6: after the first access of N_t that returned, every read of N_t,
\* dist_peaks or template_shift returns what that access returned (its
\* shift for template_shift) and makes no call of the configuration
\* resolver, whatever the configuration has become.
C6_CachedReads ==
    [][first # Unset =>
          ((ReadN_t \/ ReadDistPeaks \/ ReadTemplateShift) =>
                /\ last'.lookups = << >>
                /\ last'.ok
                /\ last'.v = (IF last'.op = "template_shift"
                              THEN ShiftOf(first).v ELSE first))]_vars

\* C7: _check_requierements_ returns, for every declared field, the override
\* when one is passed; otherwise the typed [data] value when the
\* configuration holds one; the declared default only when neither is
\* given; and fails when there is no override, no default and no
\* well-typed entry.
C7_ConfigBeforeDefault ==
    \A p \in Running :
        pc[p] \in {"init", "failed"} =>
            \A i \in 1..Len(_requiered_fields) :
                LET f     == _requiered_fields[i]
                    entry == TypedLookup(params, f.type, f.key, Unset)
                    ok    == pc[p] = "init"
                IN  IF overrides[f.key] # Unset
                    THEN ok => kwargs[p][f.key] = overrides[f.key]
                    ELSE IF entry.ok
                    THEN ok => kwargs[p][f.key] = entry.v
                    ELSE IF f.default # None
                    THEN ok => kwargs[p][f.key] = f.default
                    ELSE ~ok

\* C8: when the window length is computed, the data-scoped duration is
\* consulted if and only if the detection-scoped one is absent; a
\* detection-scoped entry that is present but no float makes the read fail;
\* and the read fails when both lookups fail.
C8_FallbackOnlyWhenAbsent ==
    (last.op \in {"N_t", "dist_peaks", "template_shift"} /\ ~last.hit) =>
        /\ (\E i \in 1..Len(last.lookups) : last.lookups[i] = "data")
               <=> last.det = Absent
        /\ (last.det \notin Durations /\ last.det # Absent) => ~last.ok
        /\ (last.det \notin Durations /\ last.dat \notin Durations) => ~last.ok

\* C9: every message is printed by the process of rank 0.
C9_OnlyMasterPrints == \A m \in log : m.rank = 0

\* C10: the cache _N_t is unset or holds an odd sample count; a failed read
\* leaves no intermediate value in it.
C10_CacheUnsetOrOdd ==
    _N_t = None \/ (_N_t.t = "int" /\ _N_t.n % 2 = 1)
====
